---- MODULE Spec2Model ----
(***************************************************************************)
(* Model of aa_greeting.py: resolving auto attendant (AA) specs to a list  *)
(* of AAs (AAPicker) and bringing the greeting of one menu of each AA to   *)
(* the desired state (update_aa), both fanned out with asyncio.gather.     *)
(*                                                                         *)
(* Strings that the code takes apart (AA specs, names, paths) are          *)
(* sequences of one-character strings; ".*" is one element standing for    *)
(* the regular expression "any characters".  A path is the sequence of its *)
(* components.  The model follows the one menu selected by the "menu"      *)
(* argument; the other menu is copied unchanged by the code.               *)
(***************************************************************************)
EXTENDS Integers, Sequences, FiniteSets, TLC

\* ---------------------------------------------------------------- bounds
\* largest number of AA specs on the command line
MaxSpecs == 2
\* number of times the script is run in a row on the same remote state
MaxRuns == 2

\* ------------------------------------------------- the remote directory
\* code points order the characters as Python's string comparison does
CharOrder == <<"(", ".*", "2", ":", "A", "B", "X", "a", "b", "c", "l", "r", "|">>

Ord(c) == CHOOSE k \in 1..Len(CharOrder) : CharOrder[k] = c

\* locations the remote service knows: SiteA, SiteB
LocationDirectory ==
  << [location_id |-> "locA", name |-> <<"A">>],
     [location_id |-> "locB", name |-> <<"B">>] >>

\* AAs the remote service knows, in the order its list call returns them:
\* Lobby in SiteB, Reception2 and Reception in SiteA
AADirectory ==
  << [auto_attendant_id |-> 1, location_id |-> "locB", location_name |-> <<"B">>, name |-> <<"l">>],
     [auto_attendant_id |-> 2, location_id |-> "locA", location_name |-> <<"A">>, name |-> <<"r", "2">>],
     [auto_attendant_id |-> 3, location_id |-> "locA", location_name |-> <<"A">>, name |-> <<"r">>] >>

AAIds == {AADirectory[k].auto_attendant_id : k \in 1..Len(AADirectory)}

AAById(id) == AADirectory[CHOOSE k \in 1..Len(AADirectory) : AADirectory[k].auto_attendant_id = id]

\* Optional values
None == "None"
NoLocation == "None"

\* ------------------------------------------------------ pure functions
\* str.split(sep): the pieces of s between the occurrences of sep
RECURSIVE Split(_, _)
Split(s, sep) ==
  IF \A k \in 1..Len(s) : s[k] # sep
  THEN <<s>>
  ELSE LET i == CHOOSE k \in 1..Len(s) : s[k] = sep /\ \A j \in 1..(k - 1) : s[j] # sep
       IN  <<SubSeq(s, 1, i - 1)>> \o Split(SubSeq(s, i + 1, Len(s)), sep)

\* os.path.basename: the last component of a path
Basename(path) == path[Len(path)]

\* number of occurrences of c in s
Count(s, c) == Cardinality({k \in 1..Len(s) : s[k] = c})

\* re.compile succeeds unless a group is left open
Compiles(pattern) == Count(pattern, "(") = Count(pattern, ")")

\* positions of name at which a match of alt[k..] that starts after pos can end
RECURSIVE EndsFrom(_, _, _, _)
EndsFrom(alt, name, k, pos) ==
  IF k > Len(alt) THEN {pos}
  ELSE IF alt[k] = ".*"
       THEN UNION {EndsFrom(alt, name, k + 1, q) : q \in pos..Len(name)}
       ELSE IF pos < Len(name) /\ name[pos + 1] = alt[k]
            THEN EndsFrom(alt, name, k + 1, pos + 1)
            ELSE {}

\* re.compile(f'^{aa_spec}$').match(name): "|" binds weaker than the anchors,
\* so "$" belongs to the last alternative only; match() starts at position 0
ReMatch(aa_spec, name) ==
  LET alts == Split(aa_spec, "|")
      n == Len(alts)
  IN  \E k \in 1..n : \E e \in EndsFrom(alts[k], name, 1, 0) : (k = n) => (e = Len(name))

\* lexicographic order of two strings
RECURSIVE StrLess(_, _)
StrLess(s, t) ==
  IF t = <<>> THEN FALSE
  ELSE IF s = <<>> THEN TRUE
  ELSE IF s[1] # t[1] THEN Ord(s[1]) < Ord(t[1])
  ELSE StrLess(Tail(s), Tail(t))

\* sort key of main: (aa.location_name, aa.name)
KeyLess(a, b) ==
  \/ StrLess(AAById(a).location_name, AAById(b).location_name)
  \/ /\ AAById(a).location_name = AAById(b).location_name
     /\ StrLess(AAById(a).name, AAById(b).name)

\* list.sort(key=...): stable insertion of x into the sorted list s
RECURSIVE Insert(_, _)
Insert(x, s) ==
  IF s = <<>> THEN <<x>>
  ELSE IF KeyLess(x, s[1]) THEN <<x>> \o s
  ELSE <<s[1]>> \o Insert(x, Tail(s))

SortAAsNot(s) == s

RECURSIVE SortAAs(_)
SortAAs(s) == IF s = <<>> THEN <<>> ELSE Insert(s[Len(s)], SortAAs(SubSeq(s, 1, Len(s) - 1)))

\* chain.from_iterable over the result lists
RECURSIVE Chain(_)
Chain(lists) == IF lists = <<>> THEN <<>> ELSE lists[1] \o Chain(Tail(lists))

DedupNot(s, aa_ids) == s

\* lines 158-163: keep the first occurrence of every AA id
RECURSIVE Dedup(_, _)
Dedup(s, aa_ids) ==
  IF s = <<>> THEN <<>>
  ELSE IF s[1] \in aa_ids THEN Dedup(Tail(s), aa_ids)
  ELSE <<s[1]>> \o Dedup(Tail(s), aa_ids \cup {s[1]})


\* ------------------------------------------------------------- inputs
\* AA specs the command line can carry: "A:r.*", "l", ".*", "r|l",
\* "a:b:c" (two colons), "X:.*" (unknown location), "(" (no regular expression)
SpecChoices ==
  { <<"A", ":", "r", ".*">>, <<"l">>, <<".*">>, <<"r", "|", "l">>,
    <<"a", ":", "b", ":", "c">>, <<"X", ":", ".*">>, <<"(">> }

SpecLists == UNION {[1..n -> SpecChoices] : n \in 1..MaxSpecs}

\* the greeting argument: the literal default, or the path d/f1 of a WAV file
GreetingChoices == { <<"default">>, <<"d", "f1">> }

\* what a menu of an AA can hold on the remote side
MenuStates == [greeting : {"default", "custom"}, audio_file : {None, "f1", "f2"}]

VARIABLES
  aa_specs,             \* args.aaname
  greeting,             \* args.greeting
  test,                 \* args.test
  re_upload,            \* args.reupload
  remoteLocations,      \* what the remote returns for the list of locations
  remote,               \* remote menu configuration of every AA
  locations_cache,      \* AAPicker._locations
  locations_lock,       \* AAPicker._locations_lock: locked flag and FIFO of waiters
  list_locations_calls, \* number of api.locations.list() calls issued
  picks,                \* the pick_one_spec task of every AA spec
  mainPc,               \* where main is: "pick", "update", "done", "exit", "raised"
  abort,                \* why main ended early, and the AA spec whose error was raised
  aa_list,              \* the sorted list of AAs to update
  tasks,                \* the update_aa task of every AA
  calls,                \* remote calls issued by the update_aa task of every AA
  report,               \* the result lines printed at the end
  run,                  \* number of the current run of the script
  prev_ok               \* AAs whose update_aa returned without error in the previous run

vars == <<aa_specs, greeting, test, re_upload, remoteLocations, remote, locations_cache,
          locations_lock, list_locations_calls, picks, mainPc, abort, aa_list, tasks,
          calls, report, run, prev_ok>>

inputs == <<aa_specs, greeting, test, re_upload, remoteLocations>>

pickerVars == <<locations_cache, locations_lock, list_locations_calls, picks>>

updateVars == <<aa_list, tasks, calls, report>>

\* ------------------------------------------------ AAPicker: one AA spec
NoCache == [is_none |-> TRUE, list |-> <<>>]

PickTask(pc, result, matches, location_id, aa_spec, diag) ==
  [pc |-> pc, result |-> result, aa_list |-> matches, location_id |-> location_id,
   aa_spec |-> aa_spec, diag |-> diag]

NewPick == PickTask("start", "pending", <<>>, NoLocation, <<>>, "")

\* print a diagnostic and raise KeyError
RaiseKeyError(diag) == PickTask("done", "KeyError", <<>>, NoLocation, <<>>, diag)

\* an exception of a remote call leaves pick_one_spec
RaiseError == PickTask("done", "Error", <<>>, NoLocation, <<>>, "")

\* lines 130-136: compile the pattern, then ask for the AAs of the scope
CompileAndList(aa_spec, location_id) ==
  IF ~Compiles(aa_spec)
  THEN RaiseKeyError("invalid AA spec")
  ELSE PickTask("list", "pending", <<>>, location_id, aa_spec, "")

AfterLocationsUnscoped(parts, locs) ==
  IF SelectSeq(locs, LAMBDA loc : loc.name = parts[1]) = <<>>
  THEN RaiseKeyError("Location not found")
  ELSE CompileAndList(parts[2], NoLocation)

\* lines 121-126: the first location with the given name
AfterLocations(parts, locs) ==
  LET found == SelectSeq(locs, LAMBDA loc : loc.name = parts[1])
  IN  IF found = <<>>
      THEN RaiseKeyError("Location not found")
      ELSE CompileAndList(parts[2], found[1].location_id)

\* line 103: "if not self._locations"
NotLocations(cache) == cache.is_none \/ cache.list = <<>>

\* api.telephony.auto_attendant.list(location_id=...)
ListAAs(location_id) ==
  IF remoteLocations = <<>> THEN <<>>
  ELSE SelectSeq(AADirectory, LAMBDA aa : location_id = NoLocation \/ aa.location_id = location_id)

\* lines 136-138: the ids of the listed AAs whose name matches
Matching(listed, aa_spec) ==
  LET kept == SelectSeq(listed, LAMBDA aa : ReMatch(aa_spec, aa.name))
  IN  [k \in 1..Len(kept) |-> kept[k].auto_attendant_id]

LockedNotTaken(i, parts, lock) ==
  IF NotLocations(locations_cache)
  THEN /\ picks' = [picks EXCEPT ![i].pc = "locations"]
       /\ locations_lock' = [lock EXCEPT !.locked = FALSE]
       /\ list_locations_calls' = list_locations_calls + 1
  ELSE /\ picks' = [picks EXCEPT ![i] = AfterLocations(parts, locations_cache.list)]
       /\ locations_lock' = [lock EXCEPT !.locked = FALSE]
       /\ UNCHANGED list_locations_calls

\* lines 102-105 with the lock (its waiters as in lock) held by task i:
\* fetch the list, or hand out the cached one and release
Locked(i, parts, lock) ==
  IF NotLocations(locations_cache)
  THEN /\ picks' = [picks EXCEPT ![i].pc = "locations"]
       /\ locations_lock' = [lock EXCEPT !.locked = TRUE]
       /\ list_locations_calls' = list_locations_calls + 1
  ELSE /\ picks' = [picks EXCEPT ![i] = AfterLocations(parts, locations_cache.list)]
       /\ locations_lock' = [lock EXCEPT !.locked = FALSE]
       /\ UNCHANGED list_locations_calls

\* lines 112-129 and the acquire of line 102: the task runs to its first await
PickStart(i) ==
  /\ mainPc = "pick"
  /\ picks[i].pc = "start"
  /\ LET parts == Split(aa_specs[i], ":")
     IN  IF Len(parts) = 1
         THEN /\ picks' = [picks EXCEPT ![i] = CompileAndList(parts[1], NoLocation)]
              /\ UNCHANGED <<locations_lock, list_locations_calls>>
         ELSE IF Len(parts) = 2
         THEN IF ~locations_lock.locked /\ locations_lock.waiters = <<>>
              THEN Locked(i, parts, locations_lock)
              ELSE /\ picks' = [picks EXCEPT ![i].pc = "lock"]
                   /\ locations_lock' = [locations_lock EXCEPT !.waiters = Append(@, i)]
                   /\ UNCHANGED list_locations_calls
         ELSE /\ picks' = [picks EXCEPT ![i] = RaiseKeyError("Invalid AA spec")]
              /\ UNCHANGED <<locations_lock, list_locations_calls>>
  /\ UNCHANGED <<inputs, remote, locations_cache, mainPc, abort, updateVars, run, prev_ok>>

\* the released lock goes to the first waiter
LockGranted(i) ==
  /\ picks[i].pc = "lock"
  /\ ~locations_lock.locked
  /\ locations_lock.waiters # <<>>
  /\ Head(locations_lock.waiters) = i
  /\ Locked(i, Split(aa_specs[i], ":"), [locations_lock EXCEPT !.waiters = Tail(@)])
  /\ UNCHANGED <<inputs, remote, locations_cache, mainPc, abort, updateVars, run, prev_ok>>

LocationsReturnKeepsLock(i) ==
  /\ picks[i].pc = "locations"
  /\ \/ /\ locations_cache' = [is_none |-> FALSE, list |-> remoteLocations]
        /\ picks' = [picks EXCEPT ![i] = AfterLocations(Split(aa_specs[i], ":"), remoteLocations)]
     \/ /\ picks' = [picks EXCEPT ![i] = RaiseError]
        /\ UNCHANGED locations_cache
  /\ UNCHANGED <<inputs, remote, locations_lock, list_locations_calls, mainPc, abort,
                 updateVars, run, prev_ok>>

\* line 104: api.locations.list() returns the list, or raises
LocationsReturn(i) ==
  /\ picks[i].pc = "locations"
  /\ locations_lock' = [locations_lock EXCEPT !.locked = FALSE]
  /\ \/ /\ locations_cache' = [is_none |-> FALSE, list |-> remoteLocations]
        /\ picks' = [picks EXCEPT ![i] = AfterLocations(Split(aa_specs[i], ":"), remoteLocations)]
     \/ /\ picks' = [picks EXCEPT ![i] = RaiseError]
        /\ UNCHANGED locations_cache
  /\ UNCHANGED <<inputs, remote, list_locations_calls, mainPc, abort, updateVars, run, prev_ok>>

\* line 136: the list of AAs returns, or the call raises
ListReturn(i) ==
  /\ picks[i].pc = "list"
  /\ \/ picks' = [picks EXCEPT ![i] =
          PickTask("done", "ok", Matching(ListAAs(picks[i].location_id), picks[i].aa_spec),
                   picks[i].location_id, picks[i].aa_spec, "")]
     \/ picks' = [picks EXCEPT ![i] = RaiseError]
  /\ UNCHANGED <<inputs, remote, locations_cache, locations_lock, list_locations_calls,
                 mainPc, abort, updateVars, run, prev_ok>>


\* ---------------------------------------------------------- update_aa
Call(op, mode, name) == [op |-> op, greeting |-> mode, audio_file |-> name]

\* what update_aa does next: where it waits, its result, the menu of the
\* settings copy, and the remote call it has just issued (none or one)
Step(pc, result, update_menu, issued) ==
  [pc |-> pc, result |-> result, update_menu |-> update_menu, issued |-> issued]

\* update_aa returns None
Return(update_menu) == Step("done", "None", update_menu, <<>>)

AlreadyDefaultAlways(update_menu) == TRUE

AlreadyDefaultNever(update_menu) == FALSE

\* line 189
AlreadyDefault(update_menu) == update_menu.greeting = "default"

NeedsUploadIgnoresFlag(update_menu, basename, reupload) ==
  ~(update_menu.audio_file # None /\ update_menu.audio_file = basename)

NeedsUploadAlways(update_menu, basename, reupload) == TRUE

\* line 197 negated: does the greeting have to be uploaded?
NeedsUpload(update_menu, basename, reupload) ==
  ~(update_menu.audio_file # None /\ update_menu.audio_file = basename /\ ~reupload)

AlreadyCustomSameName(update_menu) ==
  update_menu.greeting = "custom" /\ update_menu.audio_file = Basename(greeting)

AlreadyCustomNever(update_menu) == FALSE

\* line 211
AlreadyCustom(update_menu) == update_menu.greeting = "custom"

ApplyUpdateAlways(update_menu) ==
  Step("update", "pending", update_menu,
       <<Call("update", update_menu.greeting, update_menu.audio_file)>>)

\* lines 221-228: apply the update
ApplyUpdate(update_menu) ==
  IF test
  THEN Return(update_menu)
  ELSE Step("update", "pending", update_menu,
            <<Call("update", update_menu.greeting, update_menu.audio_file)>>)

AfterUploadKeepsMode(update_menu) ==
  IF AlreadyCustom(update_menu)
  THEN Return(update_menu)
  ELSE ApplyUpdate([update_menu EXCEPT !.audio_file = Basename(greeting)])

\* lines 211-219: after the upload step
AfterUpload(update_menu) ==
  IF AlreadyCustom(update_menu)
  THEN Return(update_menu)
  ELSE ApplyUpdate([greeting |-> "custom", audio_file |-> Basename(greeting)])

\* lines 182-209: after the details have arrived
AfterDetails(details) ==
  IF greeting = <<"default">>
  THEN IF AlreadyDefault(details)
       THEN Return(details)
       ELSE ApplyUpdate([details EXCEPT !.greeting = "default"])
  ELSE IF NeedsUpload(details, Basename(greeting), re_upload)
       THEN IF test
            THEN AfterUpload(details)
            ELSE Step("upload", "pending", details, <<Call("upload", "", Basename(greeting))>>)
       ELSE AfterUpload(details)

\* an exception of a remote call leaves update_aa
Failed(t, text) == [t EXCEPT !.pc = "done", !.result = text]

Continue(t, step) ==
  [t EXCEPT !.pc = step.pc, !.result = step.result, !.update_menu = step.update_menu]

\* lines 68-82: what the upload leaves on the remote side.  The file is stored
\* under its base name (line 77); whether customGreetingEnabled=true (line 72)
\* also switches the menu to custom is up to the remote service.
UploadEffects(menu, basename) ==
  { [menu EXCEPT !.audio_file = basename],
    [greeting |-> "custom", audio_file |-> basename] }

NoMenu == [greeting |-> "", audio_file |-> None]

NewTask == [pc |-> "idle", result |-> "pending", details |-> NoMenu, update_menu |-> NoMenu]

\* lines 176-178: the details arrive, or the call raises
DetailsReturn(a) ==
  /\ tasks[a].pc = "details"
  /\ \/ LET step == AfterDetails(remote[a])
        IN  /\ tasks' = [tasks EXCEPT ![a] = Continue([@ EXCEPT !.details = remote[a]], step)]
            /\ calls' = [calls EXCEPT ![a] = @ \o step.issued]
     \/ /\ tasks' = [tasks EXCEPT ![a] = Failed(@, "details failed")]
        /\ UNCHANGED calls
  /\ UNCHANGED <<inputs, remote, pickerVars, mainPc, abort, aa_list, report, run, prev_ok>>

UploadReturnIgnoresFailure(a) ==
  /\ tasks[a].pc = "upload"
  /\ LET step == AfterUpload(tasks[a].update_menu)
     IN  /\ \/ \E menu \in UploadEffects(remote[a], Basename(greeting)) :
                 remote' = [remote EXCEPT ![a] = menu]
            \/ UNCHANGED remote
         /\ tasks' = [tasks EXCEPT ![a] = Continue(@, step)]
         /\ calls' = [calls EXCEPT ![a] = @ \o step.issued]
  /\ UNCHANGED <<inputs, pickerVars, mainPc, abort, aa_list, report, run, prev_ok>>

\* lines 203-209: the upload is done, or raise_for_status raises
UploadReturn(a) ==
  /\ tasks[a].pc = "upload"
  /\ \/ LET step == AfterUpload(tasks[a].update_menu)
        IN  /\ \E menu \in UploadEffects(remote[a], Basename(greeting)) :
                 remote' = [remote EXCEPT ![a] = menu]
            /\ tasks' = [tasks EXCEPT ![a] = Continue(@, step)]
            /\ calls' = [calls EXCEPT ![a] = @ \o step.issued]
     \/ /\ tasks' = [tasks EXCEPT ![a] = Failed(@, "upload failed")]
        /\ UNCHANGED <<remote, calls>>
  /\ UNCHANGED <<inputs, pickerVars, mainPc, abort, aa_list, report, run, prev_ok>>

\* lines 224-228: the settings are stored, or the call raises
UpdateReturn(a) ==
  /\ tasks[a].pc = "update"
  /\ \/ /\ remote' = [remote EXCEPT ![a] = tasks[a].update_menu]
        /\ tasks' = [tasks EXCEPT ![a] = Continue(@, Return(tasks[a].update_menu))]
     \/ /\ tasks' = [tasks EXCEPT ![a] = Failed(@, "update failed")]
        /\ UNCHANGED remote
  /\ UNCHANGED <<inputs, pickerVars, mainPc, abort, aa_list, calls, report, run, prev_ok>>


\* --------------------------------------------- AAPicker.pick and main
IsException(result) == result \in {"KeyError", "Error"}

PickOutcomeRecovering(results) ==
  IF \E k \in 1..Len(results) : results[k] = "Error" THEN "raise"
  ELSE IF \A k \in 1..Len(results) : results[k] = "KeyError" THEN "exit"
  ELSE "return"

PickOutcomeIgnoringKeyError(results) ==
  IF \E k \in 1..Len(results) : results[k] = "Error" THEN "raise" ELSE "return"

PickOutcomeKeyErrorFirst(results) ==
  IF \E k \in 1..Len(results) : results[k] = "KeyError" THEN "exit"
  ELSE IF \E k \in 1..Len(results) : results[k] = "Error" THEN "raise"
  ELSE "return"

\* lines 148-155: what pick does with the gathered results
PickOutcome(results) ==
  IF \E k \in 1..Len(results) : IsException(results[k])
  THEN IF \E k \in 1..Len(results) : IsException(results[k]) /\ results[k] # "KeyError"
       THEN "raise"
       ELSE "exit"
  ELSE "return"

\* line 152: the first result that is an exception other than KeyError
FirstError(results) ==
  CHOOSE k \in 1..Len(results) :
    /\ results[k] = "Error"
    /\ \A j \in 1..(k - 1) : results[j] # "Error"

\* lines 156-164: the AAs of all result lists, each once
PickedAAs(lists) == Dedup(Chain(lists), {})

NoAbort == [reason |-> "", spec |-> 0]

\* lines 148-164 and 281-296: all pick_one_spec tasks are done; pick raises,
\* exits or returns, and main then sorts the AAs and starts update_aa for each
PickReturn ==
  /\ mainPc = "pick"
  /\ \A i \in 1..Len(aa_specs) : picks[i].pc = "done"
  /\ LET results == [i \in 1..Len(aa_specs) |-> picks[i].result]
         picked == PickedAAs([i \in 1..Len(aa_specs) |-> picks[i].aa_list])
     IN  IF PickOutcome(results) = "raise"
         THEN /\ mainPc' = "raised"
              /\ abort' = [reason |-> "Error", spec |-> FirstError(results)]
              /\ UNCHANGED <<aa_list, tasks, calls>>
         ELSE IF PickOutcome(results) = "exit"
         THEN /\ mainPc' = "exit"
              /\ abort' = [reason |-> "KeyError", spec |-> 0]
              /\ UNCHANGED <<aa_list, tasks, calls>>
         ELSE IF picked = <<>>
         THEN /\ mainPc' = "exit"
              /\ abort' = [reason |-> "No AAs found", spec |-> 0]
              /\ UNCHANGED <<aa_list, tasks, calls>>
         ELSE /\ mainPc' = "update"
              /\ aa_list' = SortAAs(picked)
              /\ tasks' = [a \in AAIds |->
                            IF \E k \in 1..Len(picked) : picked[k] = a
                            THEN [tasks[a] EXCEPT !.pc = "details"]
                            ELSE tasks[a]]
              /\ calls' = [a \in AAIds |->
                            IF \E k \in 1..Len(picked) : picked[k] = a
                            THEN <<Call("details", "", None)>>
                            ELSE calls[a]]
              /\ UNCHANGED abort
  /\ UNCHANGED <<inputs, remote, pickerVars, report, run, prev_ok>>

ReportLineAlwaysOk(aa, result) == [aa |-> aa, r |-> "ok"]

\* lines 299-304: the line printed for one AA
ReportLine(aa, result) ==
  [aa |-> aa, r |-> IF result # "None" THEN result ELSE "ok"]

\* lines 297-305: all update_aa tasks are done; print one line per AA
UpdatesReturn ==
  /\ mainPc = "update"
  /\ \A k \in 1..Len(aa_list) : tasks[aa_list[k]].pc = "done"
  /\ report' = [k \in 1..Len(aa_list) |-> ReportLine(aa_list[k], tasks[aa_list[k]].result)]
  /\ mainPc' = "done"
  /\ UNCHANGED <<inputs, remote, pickerVars, abort, aa_list, tasks, calls, run, prev_ok>>

\* line 280 and line 145: a new AAPicker, and one pick_one_spec task per AA spec
Started ==
  /\ locations_cache = NoCache
  /\ locations_lock = [locked |-> FALSE, waiters |-> <<>>]
  /\ list_locations_calls = 0
  /\ picks = [i \in 1..Len(aa_specs) |-> NewPick]
  /\ mainPc = "pick"
  /\ abort = NoAbort
  /\ aa_list = <<>>
  /\ tasks = [a \in AAIds |-> NewTask]
  /\ calls = [a \in AAIds |-> <<>>]
  /\ report = <<>>

\* line 312: the script is run once more with the same arguments
RunAgain ==
  /\ mainPc = "done"
  /\ run < MaxRuns
  /\ run' = run + 1
  /\ prev_ok' = {a \in AAIds : tasks[a].result = "None"}
  /\ locations_cache' = NoCache
  /\ locations_lock' = [locked |-> FALSE, waiters |-> <<>>]
  /\ list_locations_calls' = 0
  /\ picks' = [i \in 1..Len(aa_specs) |-> NewPick]
  /\ mainPc' = "pick"
  /\ abort' = NoAbort
  /\ aa_list' = <<>>
  /\ tasks' = [a \in AAIds |-> NewTask]
  /\ calls' = [a \in AAIds |-> <<>>]
  /\ report' = <<>>
  /\ UNCHANGED <<inputs, remote>>

\* one run of the script, for every list of AA specs
Init ==
  /\ aa_specs \in SpecLists
  /\ greeting \in GreetingChoices
  /\ test \in BOOLEAN
  /\ re_upload = FALSE
  /\ remoteLocations \in {LocationDirectory, <<>>}
  /\ remote = [a \in AAIds |-> [greeting |-> "default", audio_file |-> None]]
  /\ run = 1
  /\ prev_ok = {}
  /\ Started

\* runs of the script with the AA specs "A:r.*" and "A:r", which pick the two
\* AAs of SiteA, for every state of their menus
InitMenus ==
  /\ aa_specs = << <<"A", ":", "r", ".*">>, <<"A", ":", "r">> >>
  /\ greeting \in GreetingChoices
  /\ test \in BOOLEAN
  /\ re_upload \in BOOLEAN
  /\ remoteLocations = LocationDirectory
  /\ remote \in {m \in [AAIds -> MenuStates] : m[1] = [greeting |-> "default", audio_file |-> None]}
  /\ run = 1
  /\ prev_ok = {}
  /\ Started

Next ==
  \/ \E i \in 1..Len(aa_specs) : PickStart(i)
  \/ \E i \in 1..Len(aa_specs) : LockGranted(i)
  \/ \E i \in 1..Len(aa_specs) : LocationsReturn(i)
  \/ \E i \in 1..Len(aa_specs) : ListReturn(i)
  \/ PickReturn
  \/ \E a \in AAIds : DetailsReturn(a)
  \/ \E a \in AAIds : UploadReturn(a)
  \/ \E a \in AAIds : UpdateReturn(a)
  \/ UpdatesReturn

NextRuns == Next \/ RunAgain

Spec == Init /\ [][Next]_vars

\* one run of the script with two AA specs and a greeting file to set
InitHang ==
  /\ aa_specs \in [1..2 -> SpecChoices]
  /\ greeting = <<"d", "f1">>
  /\ test = FALSE
  /\ re_upload = FALSE
  /\ remoteLocations = LocationDirectory
  /\ remote = [a \in AAIds |-> [greeting |-> "default", audio_file |-> None]]
  /\ run = 1
  /\ prev_ok = {}
  /\ Started

\* the event loop runs every task that can go on, and every remote call
\* returns or raises in the end, except that the calls of the first
\* pick_one_spec task and of update_aa of AA 3 may hang for ever
FairButHung ==
  /\ \A i \in 1..2 : WF_vars(PickStart(i)) /\ WF_vars(LockGranted(i))
  /\ WF_vars(LocationsReturn(2))
  /\ WF_vars(ListReturn(2))
  /\ WF_vars(PickReturn)
  /\ \A a \in AAIds \ {3} :
       WF_vars(DetailsReturn(a)) /\ WF_vars(UploadReturn(a)) /\ WF_vars(UpdateReturn(a))
  /\ WF_vars(UpdatesReturn)

SpecHang == InitHang /\ [][Next]_vars /\ FairButHung

SpecRuns == InitMenus /\ [][NextRuns]_vars


\* ------------------------------------------------------------ properties
Ops(a) == [k \in 1..Len(calls[a]) |-> calls[a][k].op]

NumCalls(a, op) == Cardinality({k \in 1..Len(calls[a]) : calls[a][k].op = op})

\* update_aa of AA a has received the details in this run
Fetched(a) == tasks[a].details # NoMenu

\* update_aa of AA a has returned without an exception
ReturnedOk(a) == tasks[a].pc = "done" /\ tasks[a].result = "None"

Custom == greeting # <<"default">>

\* C1 as stated: without --test, a custom file whose base name differs from the
\* name of the current asset means one upload call and then one update call,
\* whatever the current mode of the menu is.
C1_UploadThenUpdateAlways ==
  \A a \in AAIds :
    (ReturnedOk(a) /\ ~test /\ Custom /\ tasks[a].details.audio_file # Basename(greeting))
      => Ops(a) = <<"details", "upload", "update">>

\* C1 amended: without --test, a custom file whose base name differs from the
\* name of the fetched asset means exactly one upload call, issued first; when
\* the fetched mode is default one update call follows the successful upload
\* and no update call is issued otherwise; when the fetched mode is custom no
\* update call is issued at all.
C1_UploadThenUpdateIfDefault ==
  \A a \in AAIds :
    (Fetched(a) /\ ~test /\ Custom /\ tasks[a].details.audio_file # Basename(greeting))
      => /\ NumCalls(a, "upload") = 1
         /\ Ops(a) \in {<<"details", "upload">>, <<"details", "upload", "update">>}
         /\ tasks[a].details.greeting = "custom" => Ops(a) = <<"details", "upload">>
         /\ tasks[a].details.greeting = "default" =>
              /\ ReturnedOk(a) => Ops(a) = <<"details", "upload", "update">>
              /\ tasks[a].pc = "update" => Ops(a) = <<"details", "upload", "update">>
              /\ tasks[a].result = "update failed" => Ops(a) = <<"details", "upload", "update">>
              /\ tasks[a].pc = "upload" => Ops(a) = <<"details", "upload">>
              /\ tasks[a].result = "upload failed" => Ops(a) = <<"details", "upload">>

C1_Witness ==
  \E a, b \in AAIds :
    /\ ~test /\ Custom
    /\ ReturnedOk(a) /\ ReturnedOk(b)
    /\ tasks[a].details.audio_file # Basename(greeting)
    /\ tasks[b].details.audio_file # Basename(greeting)
    /\ tasks[a].details.greeting = "custom" /\ Ops(a) = <<"details", "upload">>
    /\ tasks[b].details.greeting = "default" /\ Ops(b) = <<"details", "upload", "update">>

\* C2 as stated: in a run that follows a successful run with the same
\* arguments, update_aa issues no upload call and no update call.
C2_SecondRunSilentAlways ==
  \A a \in AAIds :
    (run >= 2 /\ a \in prev_ok) => NumCalls(a, "upload") + NumCalls(a, "update") = 0

\* C2 amended: the same, when --reupload is not set.
C2_SecondRunSilent ==
  ~re_upload =>
    \A a \in AAIds :
      (run >= 2 /\ a \in prev_ok) => NumCalls(a, "upload") + NumCalls(a, "update") = 0

C2_Witness ==
  /\ run = 2 /\ ~re_upload /\ ~test /\ Custom
  /\ mainPc = "done"
  /\ \E a \in prev_ok : ReturnedOk(a) /\ Ops(a) = <<"details">>

\* C4: the greeting is to be default and the fetched mode is default:
\* update_aa returns without an upload call and without an update call.
C4_DefaultIsNoOp ==
  \A a \in AAIds :
    (Fetched(a) /\ ~Custom /\ tasks[a].details.greeting = "default")
      => ReturnedOk(a) /\ Ops(a) = <<"details">>

C4_Witness ==
  \E a \in AAIds :
    /\ ~test /\ ~Custom
    /\ Fetched(a) /\ tasks[a].details.greeting = "default"
    /\ ReturnedOk(a)

\* the menu fetched for AA a is custom with the asset named like the file
SameCustom(a) ==
  /\ Fetched(a) /\ Custom
  /\ tasks[a].details.greeting = "custom"
  /\ tasks[a].details.audio_file = Basename(greeting)

\* C5 as stated: the fetched mode is custom and the asset is named like the
\* file: update_aa returns without an upload call and without an update call.
C5_SameCustomIsNoOpAlways ==
  \A a \in AAIds : SameCustom(a) => ReturnedOk(a) /\ Ops(a) = <<"details">>

\* C5 amended: the same, unless --reupload is set without --test.
C5_SameCustomIsNoOp ==
  (~re_upload \/ test) =>
    \A a \in AAIds : SameCustom(a) => ReturnedOk(a) /\ Ops(a) = <<"details">>

C5_Witness == ~re_upload /\ ~test /\ \E a \in AAIds : SameCustom(a) /\ ReturnedOk(a)

\* the menu fetched for AA a is default with the asset named like the file
SameAssetDefault(a) ==
  /\ Fetched(a) /\ Custom
  /\ tasks[a].details.greeting = "default"
  /\ tasks[a].details.audio_file = Basename(greeting)

\* the only call after the details is an update to custom with the file's name
OnlyUpdateToCustom(a) ==
  /\ Ops(a) = <<"details", "update">>
  /\ calls[a][2] = Call("update", "custom", Basename(greeting))

\* C6 as stated: the fetched mode is default and the asset is named like the
\* file: no upload call, and one update call that carries mode custom and
\* the file's base name.
C6_SameAssetOnlyUpdateAlways ==
  \A a \in AAIds : SameAssetDefault(a) => OnlyUpdateToCustom(a)

\* C6 amended: the same, when neither --test nor --reupload is set.
C6_SameAssetOnlyUpdate ==
  (~test /\ ~re_upload) => \A a \in AAIds : SameAssetDefault(a) => OnlyUpdateToCustom(a)

C6_Witness ==
  ~test /\ ~re_upload /\ \E a \in AAIds : SameAssetDefault(a) /\ ReturnedOk(a)


\* C3: AAPicker.locations issues at most one list-locations call per run,
\* whatever the remote returns.
C3_AtMostOneFetch == list_locations_calls <= 1

Targets == {aa_list[k] : k \in 1..Len(aa_list)}

\* the last remote call update_aa of AA a has issued
LastOp(a) == calls[a][Len(calls[a])].op

\* C7: a failure of one AA's details fetch, upload or update does not end
\* main and does not touch the update_aa of another AA: every update_aa runs
\* to its own end, an update_aa whose calls all succeed has made all of its
\* calls and stored the greeting, and the report has one line per targeted
\* AA, in the order of the list, with that AA's own result.
C7_FailureIsolation ==
  /\ aa_list # <<>> => mainPc \in {"update", "done"}
  /\ \A a \in AAIds : tasks[a].pc \in {"details", "upload", "update"} => mainPc = "update"
  /\ mainPc = "done" =>
       /\ Len(report) = Len(aa_list)
       /\ Cardinality(Targets) = Len(aa_list)
       /\ \A k \in 1..Len(aa_list) :
            LET a == aa_list[k]
            IN  /\ report[k].aa = a
                /\ tasks[a].pc = "done"
                /\ IF tasks[a].result = "None"
                   THEN /\ report[k].r = "ok"
                        /\ (~test /\ Custom) =>
                             /\ Ops(a) = <<"details", "upload", "update">>
                             /\ remote[a] = [greeting |-> "custom", audio_file |-> Basename(greeting)]
                   ELSE /\ report[k].r = tasks[a].result
                        /\ report[k].r \in {"details failed", "upload failed", "update failed"}
                        /\ report[k].r = "details failed" => LastOp(a) = "details"
                        /\ report[k].r = "upload failed" => LastOp(a) = "upload"
                        /\ report[k].r = "update failed" => LastOp(a) = "update"

C7_Witness ==
  /\ mainPc = "done" /\ ~test /\ Custom
  /\ \E k, j \in 1..Len(report) : report[k].r = "ok" /\ report[j].r = "upload failed"

SomePick(result) == \E i \in 1..Len(aa_specs) : picks[i].result = result

\* the AAs matched by the AA specs that were resolved
Matched == UNION {{picks[i].aa_list[k] : k \in 1..Len(picks[i].aa_list)} : i \in 1..Len(aa_specs)}

\* C8 as stated: when some AA spec is invalid, some AA spec was resolved and
\* no other error occurred, pick returns the matches of the resolved AA specs.
C8_InvalidIsRecovered ==
  (mainPc # "pick" /\ SomePick("ok") /\ SomePick("KeyError") /\ ~SomePick("Error"))
    => \/ mainPc \in {"update", "done"} /\ Targets = Matched
       \/ Matched = {} /\ abort.reason = "No AAs found"

\* C8 amended: an invalid AA spec is reported but not recovered: when some AA
\* spec is invalid, pick returns no list of AAs and main ends early, however
\* many AA specs were resolved.
C8_InvalidIsNotRecovered ==
  (mainPc # "pick" /\ SomePick("ok") /\ SomePick("KeyError"))
    => /\ mainPc \in {"exit", "raised"}
       /\ abort.reason \in {"KeyError", "Error"}
       /\ aa_list = <<>>

C8_Witness ==
  /\ mainPc = "exit"
  /\ SomePick("KeyError")
  /\ \E i \in 1..Len(aa_specs) : picks[i].result = "ok" /\ picks[i].aa_list # <<>>

\* C9: when some AA spec fails with KeyError and none with another error,
\* the process exits with status 1, the diagnostic of every invalid AA spec
\* has been printed by then, and no details, upload or update call is issued.
C9_InvalidOnlyExits ==
  /\ \A i \in 1..Len(aa_specs) : picks[i].result = "KeyError" => picks[i].diag # ""
  /\ SomePick("KeyError") => \A a \in AAIds : calls[a] = <<>>
  /\ (mainPc # "pick" /\ SomePick("KeyError") /\ ~SomePick("Error"))
       => mainPc = "exit" /\ abort.reason = "KeyError"

C9_Witness ==
  /\ aa_specs = << <<"a", ":", "b", ":", "c">> >>
  /\ mainPc = "exit"
  /\ picks[1].diag = "Invalid AA spec"

\* C10: when some pick_one_spec fails with an error other than KeyError,
\* main ends with that error and not with exit status 1, whatever the other
\* AA specs came to, and no details, upload or update call is issued.
C10_ErrorIsRaised ==
  SomePick("Error")
    => /\ \A a \in AAIds : calls[a] = <<>>
       /\ mainPc \in {"pick", "raised"}
       /\ mainPc = "raised" =>
            /\ abort.reason = "Error"
            /\ picks[abort.spec].result = "Error"

C10_Witness == mainPc = "raised" /\ SomePick("KeyError") /\ SomePick("Error")


\* number of colons of AA spec i, and what stands before the first colon
Colons(i) == Count(aa_specs[i], ":")

BeforeColon(i) ==
  SubSeq(aa_specs[i], 1, (CHOOSE k \in 1..Len(aa_specs[i]) :
                            aa_specs[i][k] = ":" /\ \A j \in 1..(k - 1) : aa_specs[i][j] # ":") - 1)

\* positions in the list of locations of those named like the AA spec's location
Named(i) == {k \in 1..Len(remoteLocations) : remoteLocations[k].name = BeforeColon(i)}

FirstNamed(i) == remoteLocations[CHOOSE k \in Named(i) : \A j \in Named(i) : k <= j]

\* pick_one_spec of AA spec i has asked for the list of AAs
Listing(i) == picks[i].pc = "list" \/ picks[i].result = "ok"

PickedBy(i) == {picks[i].aa_list[k] : k \in 1..Len(picks[i].aa_list)}

\* C11: an AA spec without a colon lists the AAs of all locations; an AA spec
\* with one colon lists the AAs of the first location named like the part
\* before the colon and fails with KeyError when there is none; an AA spec
\* with two or more colons fails with KeyError without any remote call.
C11_ScopedByColons ==
  \A i \in 1..Len(aa_specs) :
    /\ Colons(i) = 0 =>
         /\ picks[i].pc \notin {"lock", "locations"}
         /\ Listing(i) => picks[i].location_id = NoLocation
         /\ picks[i].result = "ok" =>
              \A k \in 1..Len(AADirectory) :
                (remoteLocations # <<>> /\ ReMatch(aa_specs[i], AADirectory[k].name))
                  => AADirectory[k].auto_attendant_id \in PickedBy(i)
    /\ Colons(i) = 1 =>
         /\ Listing(i) =>
              /\ Named(i) # {}
              /\ picks[i].location_id = FirstNamed(i).location_id
         /\ picks[i].result = "ok" =>
              \A a \in PickedBy(i) : AAById(a).location_id = FirstNamed(i).location_id
         /\ (picks[i].pc = "done" /\ Named(i) = {}) =>
              \/ picks[i].result = "Error"
              \/ picks[i].result = "KeyError" /\ picks[i].diag = "Location not found"
    /\ Colons(i) >= 2 =>
         /\ picks[i].pc \in {"start", "done"}
         /\ picks[i].pc = "done" =>
              picks[i].result = "KeyError" /\ picks[i].diag = "Invalid AA spec"

C11_Witness ==
  /\ aa_specs = << <<"A", ":", "r", ".*">>, <<".*">> >>
  /\ picks[1].result = "ok" /\ picks[1].aa_list = <<2, 3>>
  /\ picks[2].result = "ok" /\ picks[2].aa_list = <<1, 2, 3>>


\* the alternatives of a pattern, and a match of one of them with the whole name
Alternatives(pattern) == Split(pattern, "|")

FullMatch(pattern, name) ==
  \E k \in 1..Len(Alternatives(pattern)) :
    Len(name) \in EndsFrom(Alternatives(pattern)[k], name, 1, 0)

\* C12: every AA that pick_one_spec returns has a name that the pattern
\* matches from its first to its last character.
C12_OnlyFullMatches ==
  \A i \in 1..Len(aa_specs) :
    picks[i].result = "ok" =>
      \A a \in PickedBy(i) : FullMatch(picks[i].aa_spec, AAById(a).name)


\* main has the list of AAs that pick returned
Picked == mainPc \in {"update", "done"} \/ abort.reason = "No AAs found"

\* C13: when every AA spec is resolved, the list that pick returns holds no
\* AA twice and holds exactly the AAs matched by some AA spec, in whatever
\* order the pick_one_spec tasks came to their end.
C13_EachMatchedOnce ==
  Picked => /\ \A i \in 1..Len(aa_specs) : picks[i].result = "ok"
            /\ \A k, j \in 1..Len(aa_list) : aa_list[k] = aa_list[j] => k = j
            /\ Targets = Matched

C13_Witness ==
  /\ mainPc = "update"
  /\ Len(aa_specs) = 2
  /\ PickedBy(1) \cap PickedBy(2) # {}
  /\ PickedBy(1) \ PickedBy(2) # {}

\* the AAs of the remote side ordered by (location_name, name):
\* Reception and Reception2 of SiteA, then Lobby of SiteB
ByLocationAndName == <<3, 2, 1>>

\* C14: the list of AAs is ordered by (location_name, name) when update_aa
\* is started, and the report names the AAs in that order, each line with the
\* result of the AA it names, whatever the order in which tasks ended.
C14_SortedReport ==
  /\ mainPc \in {"update", "done"} =>
       aa_list = SelectSeq(ByLocationAndName, LAMBDA a : a \in Matched)
  /\ mainPc = "done" =>
       /\ Len(report) = Len(aa_list)
       /\ \A k \in 1..Len(report) :
            /\ report[k].aa = aa_list[k]
            /\ report[k].r = "ok" <=> tasks[report[k].aa].result = "None"
            /\ report[k].r # "ok" => report[k].r = tasks[report[k].aa].result

C14_Witness ==
  /\ aa_specs = << <<"A", ":", "r", ".*">>, <<"l">> >>
  /\ mainPc = "done"
  /\ [k \in 1..Len(report) |-> report[k].aa] = <<3, 2, 1>>
  /\ report[1].r = "update failed" /\ report[2].r = "ok"


\* C15: with --test update_aa issues no upload call and no update call,
\* whatever the menu holds, whatever the greeting is to be, with or without
\* --reupload; the details call is the only one.
C15_TestChangesNothing ==
  test => \A a \in AAIds : /\ Ops(a) \in {<<>>, <<"details">>}
                           /\ tasks[a].pc \in {"idle", "details", "done"}
                           /\ tasks[a].result \in {"pending", "None", "details failed"}

C15_Witness ==
  /\ test /\ re_upload /\ Custom
  /\ \E a \in AAIds : /\ ReturnedOk(a)
                      /\ tasks[a].details = [greeting |-> "default", audio_file |-> "f2"]

\* C16: with --reupload and without --test, update_aa to a custom file issues
\* exactly one upload call once it has the details, whatever the menu holds,
\* also when the asset is named like the file.
C16_ReuploadAlwaysUploads ==
  (re_upload /\ ~test /\ Custom) =>
    \A a \in AAIds : Fetched(a) => NumCalls(a, "upload") = 1 /\ calls[a][2].op = "upload"

C16_Witness ==
  /\ re_upload /\ ~test
  /\ \E a \in AAIds : SameCustom(a) /\ ReturnedOk(a) /\ Ops(a) = <<"details", "upload">>

\* C17: when update_aa has returned without an exception and without --test,
\* the menu on the remote side is default if the greeting was to be default,
\* and custom with the asset named like the file if it was to be a file.
C17_RemoteAsDesired ==
  \A a \in AAIds :
    (ReturnedOk(a) /\ ~test) =>
      IF Custom
      THEN remote[a] = [greeting |-> "custom", audio_file |-> Basename(greeting)]
      ELSE remote[a].greeting = "default"

C17_Witness ==
  \E a, b \in AAIds :
    /\ ~test /\ Custom /\ run = 1
    /\ ReturnedOk(a) /\ tasks[a].details = [greeting |-> "custom", audio_file |-> "f2"]
    /\ ReturnedOk(b) /\ tasks[b].details = [greeting |-> "default", audio_file |-> None]


\* positions of the calls of one kind among the calls of update_aa of AA a
CallsAt(a, op) == {k \in 1..Len(calls[a]) : calls[a][k].op = op}

\* C19: within one update_aa the upload has returned before the update call
\* is issued; an update to custom is only issued with the file stored on the
\* remote side; when the upload fails no update call is issued and the menu
\* is not set to custom by an update; the failure is the result of that AA
\* alone and main goes on.
C19_UploadGuardsUpdate ==
  \A a \in AAIds :
    /\ \A u \in CallsAt(a, "upload") : \A v \in CallsAt(a, "update") : u < v
    /\ tasks[a].pc = "upload" => CallsAt(a, "update") = {}
    /\ (CallsAt(a, "update") # {} /\ Custom) => remote[a].audio_file = Basename(greeting)
    /\ tasks[a].result = "upload failed" =>
         /\ tasks[a].pc = "done"
         /\ CallsAt(a, "update") = {}
         /\ LastOp(a) = "upload"
         /\ tasks[a].details.greeting = "default" => remote[a].greeting = "default"
         /\ mainPc \in {"update", "done"}
         /\ mainPc = "done" =>
              \A k \in 1..Len(report) :
                report[k].r = "upload failed" => tasks[report[k].aa].result = "upload failed"

C19_Witness ==
  \E a, b \in AAIds :
    /\ mainPc = "done"
    /\ tasks[a].result = "upload failed"
    /\ ReturnedOk(b) /\ Ops(b) = <<"details", "upload", "update">>


\* the pick_one_spec tasks with a list-locations call in flight, and those
\* waiting for the lock
Fetching == {i \in 1..Len(aa_specs) : picks[i].pc = "locations"}

Waiting == {i \in 1..Len(aa_specs) : picks[i].pc = "lock"}

\* C20: at most one list-locations call is in flight at any time; the lock is
\* held exactly while that call is in flight, so it is free again when the
\* call has returned or raised, and the first waiter can then take it.
C20_FetchSerialized ==
  /\ Cardinality(Fetching) <= 1
  /\ locations_lock.locked <=> Fetching # {}
  /\ Waiting = {locations_lock.waiters[k] : k \in 1..Len(locations_lock.waiters)}
  /\ Cardinality(Waiting) = Len(locations_lock.waiters)
  /\ (Waiting # {} /\ Fetching = {}) => ENABLED LockGranted(Head(locations_lock.waiters))

C20_Witness ==
  /\ Len(aa_specs) = 2
  /\ picks[1].pc = "done" /\ picks[1].result = "Error"
  /\ picks[2].pc = "locations"
  /\ list_locations_calls = 2


\* the update_aa tasks of the AAs other than AA 3 are at their end
SiblingUpdatesDone == \A a \in AAIds \ {3} : tasks[a].pc \in {"idle", "done"}

\* C18 as stated: whatever call of the first pick_one_spec task or of
\* update_aa of AA 3 hangs, the second pick_one_spec task and the update_aa
\* tasks of the other AAs come to their end.
C18_HangBlocksOwnerOnly ==
  /\ <>(picks[2].pc = "done")
  /\ (mainPc = "update") ~> SiblingUpdatesDone

\* C18 amended: the same, unless the call that hangs is list-locations and
\* the second pick_one_spec task waits for the lock that the first one holds.
C18_HangBlocksOwnerAndLockWaiters ==
  /\ \/ <>(picks[2].pc = "done")
     \/ <>[](picks[1].pc = "locations" /\ picks[2].pc = "lock")
  /\ (mainPc = "update") ~> SiblingUpdatesDone

C18_Witness ==
  /\ picks[1].pc = "locations"
  /\ picks[2].pc = "done" /\ picks[2].result = "ok" /\ picks[2].aa_list # <<>>
  /\ Colons(2) = 0

====
